---- MODULE Spec2Model ----
(***************************************************************************)
(* Comment log and score aggregation of the short-film review page.        *)
(*                                                                         *)
(* The comment log is the Firestore sub-collection                         *)
(*   submissions/{submissionId}/ShortFilmComments                          *)
(* written and read by ShortFilmCommentsService.  The submission document  *)
(* itself carries the authoritative `scores` array written by the page's   *)
(* handleSaveScore.  Server time is the variable `clock`; it advances by   *)
(* the environment action Tick, so two writes may receive equal            *)
(* timestamps.  Document ids are auto-generated: an append takes the next   *)
(* unused id.                                                              *)
(***************************************************************************)
EXTENDS Integers, Sequences, FiniteSets, TLC

\* ------------------------------------------------------------------ bounds
\* the number of store writes and clock ticks of a run
MaxOps == 5
\* the number of writes of the scores array in a run
MaxSaves == 2
\* writes of the page handlers in a run of one page
MaxWrites == 2
\* the length of a scores array found on a submission
MaxLen == 2

\* ------------------------------------------------------------ input sets
Submissions == {"s1", "s2"}
Admins == {"A", "B"}
NewContents == {<<"c1">>}
EditContents == {<<"c2">>}
Statuses == {"pending", "approved"}
Types == {"general", "scoring", "status_change", "flag"}
Ids == 1..MaxOps

\* An optional field: absent is <<>>, present is <<v>>.
None == <<>>
Some(v) == <<v>>

VARIABLES
  log,          \* id -> stored comment document (all sub-collections)
  clock,        \* server time
  ops,          \* number of accepted writes and clock ticks so far
  scoresDoc,    \* the `scores` array of the submission document
  app,          \* per page: the `application` state (None until loaded)
  pc,           \* per page: where its handleSaveScore stands
  locals,       \* per page: `scores` and `updatedScores` of the running handler
  nSaved,       \* per admin: completed saves (both writes accepted)
  lastSaved,    \* per admin: the scores of the last completed save
  failed,       \* per admin: some save of the admin has failed
  writer,       \* the admin who wrote the `scores` array last
  saves,        \* number of accepted writes of the `scores` array
  pageVersion,  \* which of the two versions of the page is deployed
  sub,          \* per page: state of its comment subscription
  listening,    \* per page: the snapshot listener is attached
  comments,     \* per page: the `comments` state, set by onUpdate
  pendingSnap,  \* per page: a snapshot of the query is due for delivery
  callBit,      \* per page: flips at every call of onUpdate
  awaiting,     \* per page: kind of write not yet followed by onUpdate
  lastCall,     \* the last direct call of the service (or declined dialog) and its outcome
  notice,       \* per page: the notification shown last
  rejected,     \* per page: the store rejected a write of the last handler
  draft,        \* per page: the `newComment` state
  subDoc,       \* reviewStatus, flagged, adminNotes of the submission document
  user,         \* per page: the signed-in admin of useAuth (None when signed out)
  loadingComments,  \* per page: the `loadingComments` state
  busy          \* per page: the busy flags that are raised

logVars == <<log, clock, ops>>
pageData == <<scoresDoc, app, pc, locals, nSaved, lastSaved, failed, writer, saves,
             pageVersion>>
pageVars == <<pageData, busy>>
subVars == <<sub, listening, comments, loadingComments, pendingSnap, callBit, awaiting>>
uiVars == <<lastCall, notice, rejected, draft, subDoc, user>>
vars == <<log, clock, ops, scoresDoc, app, pc, locals, nSaved, lastSaved, failed,
          writer, saves, pageVersion, sub, listening, comments, pendingSnap, callBit, awaiting,
          lastCall, notice, rejected, draft, subDoc, user, loadingComments, busy>>

\* what lastCall holds: the operation, its target and content, its outcome
Call(op, id, content, ok) == [op |-> op, id |-> id, content |-> content, ok |-> ok]
NoCall == Call("none", 0, << >>, TRUE)

\* the submission whose detail page the admins have open (applicationId)
PageSubmission == "s1"

\* ------------------------------------------------------- stored documents
\* metadata of a general comment (metadata || {}) and of a scoring comment
EmptyMeta == [kind |-> "none"]
StatusMeta(old, new) == [kind |-> "status", oldStatus |-> old, newStatus |-> new]
FlagMeta(f) == [kind |-> "flag", flagged |-> f]

\* score payloads a caller hands in: the five sub-scores and the total
SumOf(p) == p.technical + p.story + p.creativity + p.chiangmai + p.humanEffort
Payload(t, s, c, m, h, tot) ==
  [technical |-> t, story |-> s, creativity |-> c, chiangmai |-> m,
   humanEffort |-> h, totalScore |-> tot]
ScorePayloads == {Payload(8, 7, 9, 6, 10, 40), Payload(1, 2, 3, 4, 5, 15)}

\* the auto-generated id of the next document
FreeIds == {id \in Ids : id = Cardinality(DOMAIN log) + 1}
Collection(s) == {id \in DOMAIN log : log[id].submissionId = s}

\* serverTimestamp(): the server time at the write
serverTimestamp == clock

\* the comment object built from a document snapshot (doc.id plus doc.data())
Doc(id) == [id |-> id] @@ log[id]

\* orderBy('createdAt', 'desc'): newest first; the order among equal
\* timestamps is left to the database and is some fixed choice
\* the query ordered oldest first
RECURSIVE OrderByCreatedAtAsc(_)
OrderByCreatedAtAsc(S) ==
  IF S = {} THEN <<>>
  ELSE LET low == CHOOSE i \in S : \A j \in S : log[i].createdAt <= log[j].createdAt
       IN  <<Doc(low)>> \o OrderByCreatedAtAsc(S \ {low})

RECURSIVE OrderByCreatedAtDesc(_)
OrderByCreatedAtDesc(S) ==
  IF S = {} THEN <<>>
  ELSE LET top == CHOOSE i \in S : \A j \in S : log[i].createdAt >= log[j].createdAt
       IN  <<Doc(top)>> \o OrderByCreatedAtDesc(S \ {top})

\* the query without its isDeleted filter
WhereNotDeleted_NoFilter(S) == S

\* where('isDeleted', '==', false)
WhereNotDeleted(S) == {id \in S : log[id].isDeleted = FALSE}

getComments(s) == OrderByCreatedAtDesc(WhereNotDeleted(Collection(s)))

\* the by-type query without its type filter
getCommentsByType_AnyType(s, type) == getComments(s)

getCommentsByType(s, type) ==
  OrderByCreatedAtDesc(WhereNotDeleted({id \in Collection(s) : log[id].type = type}))

\* the latest-score query without its adminId filter
getLatestScoreByAdmin_AnyAdmin(s, a) ==
  LET q == OrderByCreatedAtDesc(WhereNotDeleted(
             {id \in Collection(s) : log[id].type = "scoring"}))
  IN  IF q = <<>> THEN None ELSE Some(q[1])

\* limit(1) of the admin's non-deleted scoring comments, newest first;
\* None stands for null
getLatestScoreByAdmin(s, a) ==
  LET q == OrderByCreatedAtDesc(WhereNotDeleted(
             {id \in Collection(s) : log[id].adminId = a /\ log[id].type = "scoring"}))
  IN  IF q = <<>> THEN None ELSE Some(q[1])

\* --------------------------------------------------------- store writes
\* every accepted write and every tick counts against the budget of the run
Accepted == ops < MaxOps /\ ops' = ops + 1

\* a store whose writes make no snapshot due
Notify_Silent(s, live) ==
  /\ awaiting' = [a \in Admins |->
       IF listening[a] /\ s = PageSubmission
       THEN (IF live \/ awaiting[a] = "live" THEN "live" ELSE "dead")
       ELSE awaiting[a]]
  /\ UNCHANGED <<sub, listening, comments, loadingComments, callBit, pendingSnap>>

\* onSnapshot: a write to a document that matches the listener's query
\* before or after the write makes a new snapshot due for every active
\* listener of that sub-collection.  `live` says whether the write matches.
Notify(s, live) ==
  /\ pendingSnap' = [a \in Admins |->
       pendingSnap[a] \/ (listening[a] /\ s = PageSubmission /\ live)]
  /\ awaiting' = [a \in Admins |->
       IF listening[a] /\ s = PageSubmission
       THEN (IF live \/ awaiting[a] = "live" THEN "live" ELSE "dead")
       ELSE awaiting[a]]
  /\ UNCHANGED <<sub, listening, comments, loadingComments, callBit>>

\* addDoc: a new document under a fresh auto-generated id
addDoc(s, id, d) ==
  /\ Accepted
  /\ log' = log @@ (id :> d)
  /\ Notify(s, TRUE)

\* updateDoc rejects when the document does not exist
DocExists(s, id) == id \in Collection(s)
updateDoc(s, id, d) ==
  /\ DocExists(s, id)
  /\ Accepted
  /\ log' = [log EXCEPT ![id] = d]
  /\ Notify(s, ~log[id].isDeleted \/ ~d.isDeleted)

\* ------------------------------------------------------ service: appends
\* the name and e-mail the page passes for the signed-in admin
NameOf(a) == <<"name", a>>
EmailOf(a) == <<"email", a>>

NewDoc(s, a, type, content, scores, metadata) ==
  [submissionId |-> s, adminId |-> a, adminName |-> NameOf(a),
   adminEmail |-> EmailOf(a), content |-> content, type |-> type,
   scores |-> scores, metadata |-> metadata, createdAt |-> serverTimestamp,
   updatedAt |-> None, isEdited |-> FALSE, isDeleted |-> FALSE]

addGeneralComment(s, a, content) ==
  \E id \in FreeIds : addDoc(s, id, NewDoc(s, a, "general", content, None, EmptyMeta))

\* an append that writes over the admin's earlier scoring comment, if any
addScoringComment_Upsert(s, a, scores) ==
  LET mine == {id \in Collection(s) : log[id].adminId = a /\ log[id].type = "scoring"}
      d == NewDoc(s, a, "scoring", <<"Scoring evaluation completed">>,
                  Some(scores), EmptyMeta)
  IN  IF mine = {}
      THEN \E id \in FreeIds : addDoc(s, id, d)
      ELSE \E id \in mine : Accepted /\ log' = [log EXCEPT ![id] = d] /\ Notify(s, TRUE)

addScoringComment(s, a, scores) ==
  \E id \in FreeIds :
    addDoc(s, id, NewDoc(s, a, "scoring", <<"Scoring evaluation completed">>,
                         Some(scores), EmptyMeta))

addStatusChangeComment(s, a, oldStatus, newStatus) ==
  \E id \in FreeIds :
    addDoc(s, id, NewDoc(s, a, "status_change",
                         <<"Status changed from", oldStatus, "to", newStatus>>,
                         None, StatusMeta(oldStatus, newStatus)))

addFlagComment(s, a, flagged) ==
  \E id \in FreeIds :
    addDoc(s, id, NewDoc(s, a, "flag",
                         IF flagged THEN <<"Application flagged. ">>
                                    ELSE <<"Application unflagged.">>,
                         None, FlagMeta(flagged)))

\* ------------------------------------------------- service: edit, delete
\* an edit that leaves updatedAt as it was
EditedDoc_NoStamp(d, content) ==
  [d EXCEPT !.content = content, !.isEdited = TRUE]

\* an edit that also brings a deleted comment back
EditedDoc_Undelete(d, content) ==
  [d EXCEPT !.content = content, !.updatedAt = Some(serverTimestamp),
            !.isEdited = TRUE, !.isDeleted = FALSE]

\* the fields updateComment writes over the stored document
EditedDoc(d, content) ==
  [d EXCEPT !.content = content, !.updatedAt = Some(serverTimestamp), !.isEdited = TRUE]

updateComment(s, id, content) ==
  /\ DocExists(s, id)
  /\ updateDoc(s, id, EditedDoc(log[id], content))

\* updateComment of the service variant that takes an optional metadata
\* argument: it writes metadata || {} next to content, updatedAt and isEdited
EditedDocWithMetadata(d, content, metadata) ==
  [d EXCEPT !.content = content,
            !.metadata = IF metadata = None THEN EmptyMeta ELSE metadata[1],
            !.updatedAt = Some(serverTimestamp), !.isEdited = TRUE]

updateCommentWithMetadata(s, id, content, metadata) ==
  /\ DocExists(s, id)
  /\ updateDoc(s, id, EditedDocWithMetadata(log[id], content, metadata))

\* a delete that also blanks the author's name
SoftDeletedDoc_Anonymised(d) ==
  [d EXCEPT !.isDeleted = TRUE, !.updatedAt = Some(serverTimestamp),
            !.adminName = <<"deleted">>]

\* the fields deleteComment writes over the stored document
SoftDeletedDoc(d) ==
  [d EXCEPT !.isDeleted = TRUE, !.updatedAt = Some(serverTimestamp)]

\* a delete that removes the document (deleteDoc) instead of marking it
deleteComment_Hard(s, id) ==
  /\ DocExists(s, id)
  /\ Accepted
  /\ log' = [i \in DOMAIN log \ {id} |-> log[i]]
  /\ Notify(s, ~log[id].isDeleted)

deleteComment(s, id) ==
  /\ DocExists(s, id)
  /\ updateDoc(s, id, SoftDeletedDoc(log[id]))

\* ------------------------------------------------------------ environment
Tick ==
  /\ Accepted
  /\ clock' = clock + 1
  /\ UNCHANGED log
  /\ UNCHANGED pageVars
  /\ UNCHANGED uiVars
  /\ UNCHANGED subVars

\* ------------------------------------------- calls of the comment service
OtherSubmission == "s2"

AppendGeneral(s, a) ==
  /\ \E c \in NewContents : addGeneralComment(s, a, c)
  /\ UNCHANGED clock
  /\ UNCHANGED pageVars
  /\ UNCHANGED uiVars

AppendScoring(s, a) ==
  /\ \E p \in ScorePayloads : addScoringComment(s, a, p)
  /\ UNCHANGED clock
  /\ UNCHANGED pageVars
  /\ UNCHANGED uiVars

AppendStatusChange(s, a) ==
  /\ addStatusChangeComment(s, a, "pending", "approved")
  /\ UNCHANGED clock
  /\ UNCHANGED pageVars
  /\ UNCHANGED uiVars

AppendFlag(s, a) ==
  /\ addFlagComment(s, a, TRUE)
  /\ UNCHANGED clock
  /\ UNCHANGED pageVars
  /\ UNCHANGED uiVars

Edit ==
  /\ \E s \in Submissions, id \in Ids, c \in EditContents : updateComment(s, id, c)
  /\ UNCHANGED clock
  /\ UNCHANGED pageVars
  /\ UNCHANGED uiVars

SoftDelete ==
  /\ \E s \in Submissions, id \in Ids : deleteComment(s, id)
  /\ UNCHANGED clock
  /\ UNCHANGED pageVars
  /\ UNCHANGED uiVars

\* ------------------------------------- direct calls and their outcomes
\* a call of updateComment: updateDoc rejects when the document is
\* missing, the service rethrows and nothing is written
EditCall(s, id, c) ==
  /\ \/ /\ updateComment(s, id, c)
        /\ lastCall' = Call("edit", id, c, TRUE)
     \/ /\ ~DocExists(s, id)
        /\ lastCall' = Call("edit", id, c, FALSE)
        /\ UNCHANGED <<log, ops>>
        /\ UNCHANGED subVars
  /\ UNCHANGED clock
  /\ UNCHANGED pageVars
  /\ UNCHANGED <<notice, rejected, draft, subDoc, user>>

\* a call of updateComment of the variant with the metadata argument, with
\* the argument left out or given
EditMetadata == {None, Some(FlagMeta(TRUE))}

EditCallWithMetadata(s, id, c) ==
  /\ \E m \in EditMetadata :
       LET op == IF m = None THEN "edit" ELSE "edit_metadata"
       IN  \/ /\ updateCommentWithMetadata(s, id, c, m)
               /\ lastCall' = Call(op, id, c, TRUE)
           \/ /\ ~DocExists(s, id)
               /\ lastCall' = Call(op, id, c, FALSE)
               /\ UNCHANGED <<log, ops>>
               /\ UNCHANGED subVars
  /\ UNCHANGED clock
  /\ UNCHANGED pageVars
  /\ UNCHANGED <<notice, rejected, draft, subDoc, user>>

\* a call of deleteComment
DeleteCall(s, id) ==
  /\ \/ /\ deleteComment(s, id)
        /\ lastCall' = Call("delete", id, << >>, TRUE)
     \/ /\ ~DocExists(s, id)
        /\ lastCall' = Call("delete", id, << >>, FALSE)
        /\ UNCHANGED <<log, ops>>
        /\ UNCHANGED subVars
  /\ UNCHANGED clock
  /\ UNCHANGED pageVars
  /\ UNCHANGED <<notice, rejected, draft, subDoc, user>>

\* a call of one of the four appends; addDoc rejects when the store is
\* unreachable, the service rethrows and returns no id
AppendCall(s, a, type) ==
  /\ \/ /\ \/ type = "general" /\ \E c \in NewContents : addGeneralComment(s, a, c)
           \/ type = "scoring" /\ \E p \in ScorePayloads : addScoringComment(s, a, p)
           \/ type = "status_change" /\ addStatusChangeComment(s, a, "pending", "approved")
           \/ type = "flag" /\ addFlagComment(s, a, TRUE)
        /\ lastCall' = Call("append", Cardinality(DOMAIN log) + 1, <<type>>, TRUE)
     \/ /\ lastCall' = Call("append", 0, <<type>>, FALSE)
        /\ UNCHANGED <<log, ops>>
        /\ UNCHANGED subVars
  /\ UNCHANGED clock
  /\ UNCHANGED pageVars
  /\ UNCHANGED <<notice, rejected, draft, subDoc, user>>

\* ------------------------------------------------------ page: notifications
\* a catch branch that reports success
showError_AsSuccess(a) == notice' = [notice EXCEPT ![a] = "success"]

showError(a) == notice' = [notice EXCEPT ![a] = "error"]
showSuccess(a) == notice' = [notice EXCEPT ![a] = "success"]

\* the outcome of the store write a handler was waiting for
StoreRejects(a) == rejected' = [rejected EXCEPT ![a] = TRUE]
StoreAccepts(a) == rejected' = [rejected EXCEPT ![a] = FALSE]

\* ----------------------------------------------------- page: busy flags
\* a flag that is never lowered
Lowered_Stuck(flags, flag) == flags

\* setIsSubmittingScore, setIsSubmittingComment and setIsUpdating: true at
\* the start of a handler, false in its finally block
Raised(flags, flag) == flags \cup {flag}
Lowered(flags, flag) == flags \ {flag}
setBusy(a, flags) == busy' = [busy EXCEPT ![a] = flags]

\* ------------------------------------------------- page: handleSaveScore
\* the scores the scoring panel hands to handleSaveScore: the total is the
\* caller's and need not be the sum
ScoreInputs == {Payload(8, 7, 9, 6, 10, 40), Payload(1, 2, 3, 4, 5, 0)}

\* the element pushed onto the scores array: the scores under the admin's uid
EntryOf(a, scores) == [adminId |-> a] @@ scores

\* an update that keeps the admin's former element and appends the new one
replaceAuthorScore_KeepOld(list, a, newScore) == Append(list, newScore)

\* application.scores.filter(score => score.adminId !== user.uid), then push
replaceAuthorScore(list, a, newScore) ==
  Append(SelectSeq(list, LAMBDA e : e.adminId # a), newScore)

\* the scores object the current page passes to addScoringComment
Recomputed(scores) == [scores EXCEPT !.totalScore = SumOf(scores)]

\* fetchApplication: load the submission document into the page state,
\* between two runs of the handlers
Loaded(scores) ==
  [scores |-> scores, reviewStatus |-> subDoc.reviewStatus,
   flagged |-> subDoc.flagged, adminNotes |-> subDoc.adminNotes]

fetchApplication(a) ==
  /\ pc[a] = "idle"
  /\ app' = [app EXCEPT ![a] = Some(Loaded(scoresDoc))]
  /\ UNCHANGED <<scoresDoc, pc, locals, nSaved, lastSaved, failed, writer, saves,
                 pageVersion, busy>>
  /\ UNCHANGED logVars
  /\ UNCHANGED subVars
  /\ UNCHANGED uiVars

\* the scores fetchApplication puts into the scoring form: those of the first
\* element of the loaded array that carries the admin's uid, if there is one
userScore(scores, a) ==
  LET own == SelectSeq(scores, LAMBDA e : e.adminId = a)
  IN  IF own = <<>> THEN None
      ELSE Some([technical |-> own[1].technical, story |-> own[1].story,
                 creativity |-> own[1].creativity, chiangmai |-> own[1].chiangmai,
                 humanEffort |-> own[1].humanEffort])

\* handleSaveScore up to the first await: updateDoc of the scores array.
\* `next` is the handler position after the write, `keep` says whether the
\* page state is set right after the write (the earlier page version).
SaveScoreWrite(a, scores, next, keep) ==
  /\ pc[a] = "idle"
  /\ user[a] # None
  /\ app[a] # None
  /\ saves < MaxSaves
  /\ saves' = saves + 1
  /\ LET updatedScores == replaceAuthorScore(app[a][1].scores, a, EntryOf(a, scores))
     IN  /\ scoresDoc' = updatedScores
         /\ locals' = [locals EXCEPT ![a] =
                         Some([scores |-> scores, updatedScores |-> updatedScores])]
         /\ app' = IF keep THEN [app EXCEPT ![a] = Some([@[1] EXCEPT !.scores = updatedScores])]
                           ELSE app
  /\ pc' = [pc EXCEPT ![a] = next]
  /\ writer' = a
  /\ UNCHANGED <<nSaved, lastSaved, failed, pageVersion>>
  /\ UNCHANGED logVars
  /\ UNCHANGED subVars
  /\ UNCHANGED uiVars
  /\ setBusy(a, Raised(busy[a], "isSubmittingScore"))

\* the updateDoc of the scores array is rejected: catch, showError
SaveScoreWriteFails(a) ==
  /\ pc[a] = "idle"
  /\ user[a] # None
  /\ app[a] # None
  /\ failed' = [failed EXCEPT ![a] = TRUE]
  /\ StoreRejects(a)
  /\ showError(a)
  /\ UNCHANGED <<scoresDoc, app, pc, locals, nSaved, lastSaved, writer, saves,
                 pageVersion>>
  /\ UNCHANGED <<lastCall, draft, subDoc, user>>
  /\ UNCHANGED logVars
  /\ UNCHANGED subVars
  /\ setBusy(a, Lowered(Raised(busy[a], "isSubmittingScore"), "isSubmittingScore"))

\* the second await: addScoringComment with the scores object `sent`
SaveScoreLog(a, at, sent, keep) ==
  /\ pc[a] = at
  /\ addScoringComment(PageSubmission, a, sent)
  /\ app' = IF keep THEN [app EXCEPT ![a] = Some([@[1] EXCEPT !.scores = locals[a][1].updatedScores])]
                    ELSE app
  /\ pc' = [pc EXCEPT ![a] = "idle"]
  /\ locals' = [locals EXCEPT ![a] = None]
  /\ nSaved' = [nSaved EXCEPT ![a] = @ + 1]
  /\ lastSaved' = [lastSaved EXCEPT ![a] = Some(locals[a][1].scores)]
  /\ StoreAccepts(a)
  /\ showSuccess(a)
  /\ UNCHANGED <<scoresDoc, failed, writer, saves, pageVersion, clock>>
  /\ UNCHANGED <<lastCall, draft, subDoc, user>>
  /\ setBusy(a, Lowered(busy[a], "isSubmittingScore"))

\* a failed log append that writes the array back as the page loaded it
SaveScoreLogFails_Rollback(a) ==
  /\ pc[a] \in {"save_log", "save_log_v1"}
  /\ pc' = [pc EXCEPT ![a] = "idle"]
  /\ locals' = [locals EXCEPT ![a] = None]
  /\ failed' = [failed EXCEPT ![a] = TRUE]
  /\ scoresDoc' = SelectSeq(scoresDoc, LAMBDA e : e.adminId # a)
  /\ StoreRejects(a)
  /\ showError(a)
  /\ UNCHANGED <<app, nSaved, lastSaved, writer, saves, pageVersion>>
  /\ UNCHANGED <<lastCall, draft, subDoc, user>>
  /\ UNCHANGED logVars
  /\ UNCHANGED subVars
  /\ setBusy(a, Lowered(busy[a], "isSubmittingScore"))

\* addScoringComment throws: catch, showError; the array keeps the new score
SaveScoreLogFails(a) ==
  /\ pc[a] \in {"save_log", "save_log_v1"}
  /\ pc' = [pc EXCEPT ![a] = "idle"]
  /\ locals' = [locals EXCEPT ![a] = None]
  /\ failed' = [failed EXCEPT ![a] = TRUE]
  /\ StoreRejects(a)
  /\ showError(a)
  /\ UNCHANGED <<scoresDoc, app, nSaved, lastSaved, writer, saves, pageVersion>>
  /\ UNCHANGED <<lastCall, draft, subDoc, user>>
  /\ UNCHANGED logVars
  /\ UNCHANGED subVars
  /\ setBusy(a, Lowered(busy[a], "isSubmittingScore"))

\* the current page: the total is recomputed, the page state is set last
handleSaveScore_Write(a) ==
  /\ pageVersion = "current"
  /\ \E scores \in ScoreInputs : SaveScoreWrite(a, scores, "save_log", FALSE)

handleSaveScore_Log(a) ==
  SaveScoreLog(a, "save_log", Recomputed(locals[a][1].scores), TRUE)

\* the earlier page: the page state is set after the first write and the
\* caller's total is passed on
handleSaveScoreV1_Write(a) ==
  /\ pageVersion = "earlier"
  /\ \E scores \in ScoreInputs : SaveScoreWrite(a, scores, "save_log_v1", TRUE)

handleSaveScoreV1_Log(a) ==
  SaveScoreLog(a, "save_log_v1", locals[a][1].scores, FALSE)

\* ------------------------------------------------- page: other handlers
\* a comment box whose text is sent as typed
Trim_Identity(text) == text

\* String.prototype.trim over a text of tokens, " " being white space
RECURSIVE TrimStart(_)
TrimStart(text) ==
  IF text # << >> /\ Head(text) = " " THEN TrimStart(Tail(text)) ELSE text

RECURSIVE TrimEnd(_)
TrimEnd(text) ==
  IF text # << >> /\ text[Len(text)] = " "
  THEN TrimEnd(SubSeq(text, 1, Len(text) - 1)) ELSE text

Trim(text) == TrimEnd(TrimStart(text))

\* texts an admin can leave in the comment box
TypedTexts ==
  {<< >>, <<" ">>, <<" ", "c1", " ">>, <<"c1">>, <<"c1", " ", "c1">>}

\* onChange of the comment box: any text replaces the one in the box
TypeText(a) ==
  /\ \E text \in TypedTexts \ {draft[a]} : draft' = [draft EXCEPT ![a] = text]
  /\ UNCHANGED <<lastCall, notice, rejected, subDoc, user>>
  /\ UNCHANGED logVars
  /\ UNCHANGED pageVars
  /\ UNCHANGED subVars

\* useAuth: the admin signs out or in again while the page is open
AuthChange(a) ==
  /\ user' = [user EXCEPT ![a] = IF @ = None THEN Some(a) ELSE None]
  /\ UNCHANGED <<lastCall, notice, rejected, draft, subDoc>>
  /\ UNCHANGED logVars
  /\ UNCHANGED pageVars
  /\ UNCHANGED subVars

\* the admin types a comment into the comment box
TypeComment(a) ==
  /\ draft[a] = << >>
  /\ \E c \in NewContents : draft' = [draft EXCEPT ![a] = c]
  /\ UNCHANGED <<lastCall, notice, rejected, subDoc, user>>
  /\ UNCHANGED logVars
  /\ UNCHANGED pageVars
  /\ UNCHANGED subVars

\* handleAddComment: the draft is cleared and success shown after the append
handleAddComment(a) ==
  /\ Trim(draft[a]) # << >>
  /\ user[a] # None
  /\ addGeneralComment(PageSubmission, user[a][1], Trim(draft[a]))
  /\ draft' = [draft EXCEPT ![a] = << >>]
  /\ StoreAccepts(a)
  /\ showSuccess(a)
  /\ UNCHANGED <<lastCall, subDoc, user>>
  /\ UNCHANGED clock
  /\ UNCHANGED pageData
  /\ setBusy(a, Lowered(Raised(busy[a], "isSubmittingComment"), "isSubmittingComment"))

\* a catch branch that also clears the comment box
handleAddComment_LosesDraft(a) ==
  /\ Trim(draft[a]) # << >>
  /\ user[a] # None
  /\ draft' = [draft EXCEPT ![a] = << >>]
  /\ StoreRejects(a)
  /\ showError(a)
  /\ UNCHANGED <<lastCall, subDoc, user>>
  /\ UNCHANGED logVars
  /\ UNCHANGED pageData
  /\ UNCHANGED subVars
  /\ setBusy(a, Lowered(Raised(busy[a], "isSubmittingComment"), "isSubmittingComment"))

\* addGeneralComment throws: catch, showError
handleAddComment_Fails(a) ==
  /\ Trim(draft[a]) # << >>
  /\ user[a] # None
  /\ StoreRejects(a)
  /\ showError(a)
  /\ UNCHANGED <<lastCall, draft, subDoc, user>>
  /\ UNCHANGED logVars
  /\ UNCHANGED pageData
  /\ UNCHANGED subVars
  /\ setBusy(a, Lowered(Raised(busy[a], "isSubmittingComment"), "isSubmittingComment"))

\* a write of fields of the submission document
updateSubmission(fields) ==
  /\ Accepted
  /\ subDoc' = fields @@ subDoc
  /\ UNCHANGED <<log, clock, user>>
  /\ UNCHANGED subVars

\* handleStatusChange up to the first await: updateDoc of reviewStatus.
\* One handler of status, flag and score runs at a time on a page.
handleStatusChange_Write(a) ==
  /\ pc[a] = "idle"
  /\ user[a] # None
  /\ app[a] # None
  /\ \E newStatus \in Statuses :
        /\ updateSubmission([reviewStatus |-> newStatus])
        /\ locals' = [locals EXCEPT ![a] = Some([newStatus |-> newStatus])]
  /\ pc' = [pc EXCEPT ![a] = "status_log"]
  /\ UNCHANGED <<scoresDoc, app, nSaved, lastSaved, failed, writer, saves, pageVersion>>
  /\ UNCHANGED <<lastCall, notice, rejected, draft>>
  /\ setBusy(a, Raised(busy[a], "isUpdating"))

\* the second await: addStatusChangeComment with the page's old status
handleStatusChange_Log(a) ==
  /\ pc[a] = "status_log"
  /\ addStatusChangeComment(PageSubmission, a, app[a][1].reviewStatus,
                            locals[a][1].newStatus)
  /\ app' = [app EXCEPT ![a] = Some([@[1] EXCEPT !.reviewStatus = locals[a][1].newStatus])]
  /\ pc' = [pc EXCEPT ![a] = "idle"]
  /\ locals' = [locals EXCEPT ![a] = None]
  /\ StoreAccepts(a)
  /\ showSuccess(a)
  /\ UNCHANGED <<scoresDoc, nSaved, lastSaved, failed, writer, saves, pageVersion, clock>>
  /\ UNCHANGED <<lastCall, draft, subDoc, user>>
  /\ setBusy(a, Lowered(busy[a], "isUpdating"))

\* either write of a two-write handler is rejected: catch, showError
TwoWriteFails(a, at) ==
  /\ \/ pc[a] = "idle" /\ user[a] # None /\ app[a] # None
     \/ pc[a] = at
  /\ pc' = [pc EXCEPT ![a] = "idle"]
  /\ locals' = [locals EXCEPT ![a] = None]
  /\ StoreRejects(a)
  /\ showError(a)
  /\ UNCHANGED <<scoresDoc, app, nSaved, lastSaved, failed, writer, saves, pageVersion>>
  /\ UNCHANGED <<lastCall, draft, subDoc, user>>
  /\ UNCHANGED logVars
  /\ UNCHANGED subVars
  /\ setBusy(a, Lowered(Raised(busy[a], "isUpdating"), "isUpdating"))

handleStatusChange_Fails(a) == TwoWriteFails(a, "status_log")

\* handleFlagToggle: updateDoc of flagged, then addFlagComment
handleFlagToggle_Write(a) ==
  /\ pc[a] = "idle"
  /\ user[a] # None
  /\ app[a] # None
  /\ \E flagged \in BOOLEAN :
        /\ updateSubmission([flagged |-> flagged])
        /\ locals' = [locals EXCEPT ![a] = Some([flagged |-> flagged])]
  /\ pc' = [pc EXCEPT ![a] = "flag_log"]
  /\ UNCHANGED <<scoresDoc, app, nSaved, lastSaved, failed, writer, saves, pageVersion>>
  /\ UNCHANGED <<lastCall, notice, rejected, draft>>
  /\ setBusy(a, Raised(busy[a], "isUpdating"))

handleFlagToggle_Log(a) ==
  /\ pc[a] = "flag_log"
  /\ addFlagComment(PageSubmission, a, locals[a][1].flagged)
  /\ app' = [app EXCEPT ![a] = Some([@[1] EXCEPT !.flagged = locals[a][1].flagged])]
  /\ pc' = [pc EXCEPT ![a] = "idle"]
  /\ locals' = [locals EXCEPT ![a] = None]
  /\ StoreAccepts(a)
  /\ showSuccess(a)
  /\ UNCHANGED <<scoresDoc, nSaved, lastSaved, failed, writer, saves, pageVersion, clock>>
  /\ UNCHANGED <<lastCall, draft, subDoc, user>>
  /\ setBusy(a, Lowered(busy[a], "isUpdating"))

handleFlagToggle_Fails(a) == TwoWriteFails(a, "flag_log")

\* handleNotesChange: one updateDoc of adminNotes
handleNotesChange(a) ==
  /\ app[a] # None
  /\ \E notes \in NewContents :
        /\ updateSubmission([adminNotes |-> notes])
        /\ app' = [app EXCEPT ![a] = Some([@[1] EXCEPT !.adminNotes = notes])]
  /\ StoreAccepts(a)
  /\ showSuccess(a)
  /\ UNCHANGED <<scoresDoc, pc, locals, nSaved, lastSaved, failed, writer, saves,
                 pageVersion>>
  /\ UNCHANGED <<lastCall, draft>>
  /\ setBusy(a, Lowered(Raised(busy[a], "isUpdating"), "isUpdating"))

handleNotesChange_Fails(a) ==
  /\ app[a] # None
  /\ StoreRejects(a)
  /\ showError(a)
  /\ UNCHANGED <<lastCall, draft, subDoc, user>>
  /\ UNCHANGED logVars
  /\ UNCHANGED pageData
  /\ UNCHANGED subVars
  /\ setBusy(a, Lowered(Raised(busy[a], "isUpdating"), "isUpdating"))

\* a list that shows the delete button on every comment
Deletable_Any(a) == {comments[a][i].id : i \in 1..Len(comments[a])}

\* the comments of the list that show a delete button on admin a's page:
\* comment.adminId === user?.uid
Deletable(a) ==
  IF user[a] = None THEN {}
  ELSE {comments[a][i].id :
          i \in {j \in 1..Len(comments[a]) : comments[a][j].adminId = user[a][1]}}

\* handleDeleteComment, the confirm dialog accepted
handleDeleteComment(a) ==
  /\ \E id \in Deletable(a) : deleteComment(PageSubmission, id)
  /\ StoreAccepts(a)
  /\ showSuccess(a)
  /\ UNCHANGED <<lastCall, draft, subDoc, user>>
  /\ UNCHANGED clock
  /\ UNCHANGED pageVars

handleDeleteComment_Fails(a) ==
  /\ Deletable(a) # {}
  /\ StoreRejects(a)
  /\ showError(a)
  /\ UNCHANGED <<lastCall, draft, subDoc, user>>
  /\ UNCHANGED logVars
  /\ UNCHANGED pageVars
  /\ UNCHANGED subVars

\* handleDeleteComment, the confirm dialog declined: the handler returns
handleDeleteComment_Declined(a) ==
  /\ \E id \in Deletable(a) : lastCall' = Call("confirm_declined", id, << >>, FALSE)
  /\ UNCHANGED <<notice, rejected, draft, subDoc, user>>
  /\ UNCHANGED logVars
  /\ UNCHANGED pageVars
  /\ UNCHANGED subVars

\* the page's comment filter over the comments it holds
filteredComments(list, commentFilter) ==
  IF commentFilter = "all" THEN list
  ELSE SelectSeq(list, LAMBDA c : c.type = commentFilter)

\* ------------------------------------------------ subscription (onSnapshot)
\* a listener that stays attached after the unsubscribe call
Unsubscribe_Noop(a) ==
  /\ sub[a] = "active"
  /\ sub' = [sub EXCEPT ![a] = "closed"]
  /\ UNCHANGED <<listening, comments, loadingComments, pendingSnap, callBit, awaiting>>
  /\ UNCHANGED logVars
  /\ UNCHANGED pageVars
  /\ UNCHANGED uiVars

\* the page's effect: subscribeToComments attaches the listener, whose
\* first snapshot is due at once
Subscribe(a) ==
  /\ sub[a] = "none"
  /\ sub' = [sub EXCEPT ![a] = "active"]
  /\ listening' = [listening EXCEPT ![a] = TRUE]
  /\ pendingSnap' = [pendingSnap EXCEPT ![a] = TRUE]
  /\ loadingComments' = [loadingComments EXCEPT ![a] = TRUE]
  /\ UNCHANGED <<comments, callBit, awaiting>>
  /\ UNCHANGED logVars
  /\ UNCHANGED pageVars
  /\ UNCHANGED uiVars

\* building the query throws: the service returns a function that does
\* nothing and no listener is attached
SubscribeSetupFails(a) ==
  /\ sub[a] = "none"
  /\ sub' = [sub EXCEPT ![a] = "active"]
  /\ loadingComments' = [loadingComments EXCEPT ![a] = TRUE]
  /\ UNCHANGED <<listening, comments, pendingSnap, callBit, awaiting>>
  /\ UNCHANGED logVars
  /\ UNCHANGED pageVars
  /\ UNCHANGED uiVars

\* the snapshot callback: the whole result of the query goes to the
\* page's callback, which stores it with setComments
Deliver(a) ==
  /\ listening[a]
  /\ pendingSnap[a]
  /\ comments' = [comments EXCEPT ![a] = getComments(PageSubmission)]
  /\ loadingComments' = [loadingComments EXCEPT ![a] = FALSE]
  /\ callBit' = [callBit EXCEPT ![a] = ~callBit[a]]
  /\ pendingSnap' = [pendingSnap EXCEPT ![a] = FALSE]
  /\ awaiting' = [awaiting EXCEPT ![a] = "no"]
  /\ UNCHANGED <<sub, listening>>
  /\ UNCHANGED logVars
  /\ UNCHANGED pageVars
  /\ UNCHANGED uiVars

\* the error callback of the service: the listener is gone and the page's
\* callback receives the empty list
SubError_EmptyList(a) ==
  /\ listening[a]
  /\ listening' = [listening EXCEPT ![a] = FALSE]
  /\ sub' = [sub EXCEPT ![a] = "errored"]
  /\ comments' = [comments EXCEPT ![a] = <<>>]
  /\ loadingComments' = [loadingComments EXCEPT ![a] = FALSE]
  /\ callBit' = [callBit EXCEPT ![a] = ~callBit[a]]
  /\ UNCHANGED <<pendingSnap, awaiting>>
  /\ UNCHANGED logVars
  /\ UNCHANGED pageVars
  /\ UNCHANGED uiVars

\* the error callback of the service variant that only logs the error
SubError_LogOnly(a) ==
  /\ listening[a]
  /\ listening' = [listening EXCEPT ![a] = FALSE]
  /\ sub' = [sub EXCEPT ![a] = "errored"]
  /\ UNCHANGED <<comments, loadingComments, pendingSnap, callBit, awaiting>>
  /\ UNCHANGED logVars
  /\ UNCHANGED pageVars
  /\ UNCHANGED uiVars

\* the effect's cleanup calls the function subscribeToComments returned
Unsubscribe(a) ==
  /\ sub[a] \in {"active", "errored"}
  /\ sub' = [sub EXCEPT ![a] = "closed"]
  /\ listening' = [listening EXCEPT ![a] = FALSE]
  /\ UNCHANGED <<comments, loadingComments, pendingSnap, callBit, awaiting>>
  /\ UNCHANGED logVars
  /\ UNCHANGED pageVars
  /\ UNCHANGED uiVars

\* ---------------------------------------------------------- specification
\* the handlers stop writing when the page has made MaxWrites writes
WithinBudget == ops < MaxWrites

Init ==
  /\ log = << >>
  /\ clock = 0
  /\ ops = 0
  /\ scoresDoc = <<>>
  /\ app = [a \in Admins |-> None]
  /\ pc = [a \in Admins |-> "idle"]
  /\ locals = [a \in Admins |-> None]
  /\ nSaved = [a \in Admins |-> 0]
  /\ lastSaved = [a \in Admins |-> None]
  /\ failed = [a \in Admins |-> FALSE]
  /\ writer = "none"
  /\ saves = 0
  /\ pageVersion \in {"current", "earlier"}
  /\ sub = [a \in Admins |-> "none"]
  /\ listening = [a \in Admins |-> FALSE]
  /\ comments = [a \in Admins |-> <<>>]
  /\ pendingSnap = [a \in Admins |-> FALSE]
  /\ callBit = [a \in Admins |-> FALSE]
  /\ awaiting = [a \in Admins |-> "no"]
  /\ lastCall = NoCall
  /\ notice = [a \in Admins |-> "none"]
  /\ rejected = [a \in Admins |-> FALSE]
  /\ draft = [a \in Admins |-> << >>]
  /\ subDoc = [reviewStatus |-> "pending", flagged |-> FALSE, adminNotes |-> << >>]
  /\ user = [a \in Admins |-> Some(a)]
  /\ loadingComments = [a \in Admins |-> TRUE]
  /\ busy = [a \in Admins |-> {}]

\* the comment log of two submissions under appends, edits and soft deletes
Next ==
  \/ Tick
  \/ AppendGeneral(PageSubmission, "A")
  \/ AppendGeneral(OtherSubmission, "A")
  \/ Edit
  \/ SoftDelete

Spec == Init /\ [][Next]_vars

\* the scoring events of two admins next to events of other kinds
NextScores ==
  \/ Tick
  \/ \E a \in Admins : AppendScoring(PageSubmission, a)
  \/ AppendScoring(OtherSubmission, "A")
  \/ AppendGeneral(PageSubmission, "A")
  \/ SoftDelete

SpecScores == Init /\ [][NextScores]_vars

\* two admins with the detail page of the same submission open; the clock
\* moves during the first MaxWrites operations of a run
NextPage ==
  \/ WithinBudget /\ Tick
  \/ \E a \in Admins : fetchApplication(a)
  \/ \E a \in Admins : handleSaveScore_Write(a)
  \/ \E a \in Admins : handleSaveScore_Log(a)
  \/ \E a \in Admins : handleSaveScoreV1_Write(a)
  \/ \E a \in Admins : handleSaveScoreV1_Log(a)
  \/ \E a \in Admins : SaveScoreWriteFails(a)
  \/ \E a \in Admins : SaveScoreLogFails(a)

SpecPage == Init /\ [][NextPage]_vars

\* the page opened on a submission that already carries any scores array
ScoreEntries == {EntryOf(a, p) : a \in Admins, p \in ScoreInputs}
ScoreLists == UNION {[1..n -> ScoreEntries] : n \in 0..MaxLen}

InitLoaded ==
  /\ log = << >>
  /\ clock = 0
  /\ ops = 0
  /\ scoresDoc \in ScoreLists
  /\ subDoc = [reviewStatus |-> "pending", flagged |-> FALSE, adminNotes |-> << >>]
  /\ user = [a \in Admins |-> Some(a)]
  /\ loadingComments = [a \in Admins |-> TRUE]
  /\ busy = [a \in Admins |-> {}]
  /\ app = [a \in Admins |-> Some(Loaded(scoresDoc))]
  /\ pc = [a \in Admins |-> "idle"]
  /\ locals = [a \in Admins |-> None]
  /\ nSaved = [a \in Admins |-> 0]
  /\ lastSaved = [a \in Admins |-> None]
  /\ failed = [a \in Admins |-> FALSE]
  /\ writer = "none"
  /\ saves = 0
  /\ pageVersion \in {"current", "earlier"}
  /\ sub = [a \in Admins |-> "none"]
  /\ listening = [a \in Admins |-> FALSE]
  /\ comments = [a \in Admins |-> <<>>]
  /\ pendingSnap = [a \in Admins |-> FALSE]
  /\ callBit = [a \in Admins |-> FALSE]
  /\ awaiting = [a \in Admins |-> "no"]
  /\ lastCall = NoCall
  /\ notice = [a \in Admins |-> "none"]
  /\ rejected = [a \in Admins |-> FALSE]
  /\ draft = [a \in Admins |-> << >>]

NextReplace ==
  \/ \E a \in Admins : handleSaveScore_Write(a)
  \/ \E a \in Admins : handleSaveScore_Log(a)
  \/ \E a \in Admins : handleSaveScoreV1_Write(a)
  \/ \E a \in Admins : handleSaveScoreV1_Log(a)

SpecReplace == InitLoaded /\ [][NextReplace]_vars

\* one admin's page subscribed to the comments of its submission while
\* the service is called on that submission
Subscriber == "A"

NextSub ==
  \/ Tick
  \/ AppendScoring(PageSubmission, "A")
  \/ Edit
  \/ SoftDelete
  \/ Subscribe(Subscriber)
  \/ SubscribeSetupFails(Subscriber)
  \/ Deliver(Subscriber)
  \/ SubError_EmptyList(Subscriber)
  \/ SubError_LogOnly(Subscriber)
  \/ Unsubscribe(Subscriber)

InitSub == Init /\ pageVersion = "current"
SpecSub == InitSub /\ [][NextSub]_vars

\* the SDK delivers every snapshot that is due to an attached listener
NextSubFair ==
  \/ Tick
  \/ AppendGeneral(PageSubmission, "B")
  \/ Edit
  \/ SoftDelete
  \/ Subscribe(Subscriber)
  \/ Deliver(Subscriber)
  \/ SubError_EmptyList(Subscriber)
  \/ SubError_LogOnly(Subscriber)
  \/ Unsubscribe(Subscriber)

SpecSubFair == InitSub /\ [][NextSubFair]_vars /\ WF_vars(Deliver(Subscriber))

\* events of the four kinds on one submission
NextKinds ==
  \/ Tick
  \/ AppendGeneral(PageSubmission, "A")
  \/ AppendScoring(PageSubmission, "A")
  \/ AppendStatusChange(PageSubmission, "A")
  \/ AppendFlag(PageSubmission, "A")
  \/ SoftDelete

SpecKinds == InitSub /\ [][NextKinds]_vars

\* calls of the service on one submission, with their outcomes recorded
NextCalls ==
  \/ Tick
  \/ AppendCall(PageSubmission, "A", "general")
  \/ \E id \in Ids, c \in EditContents : EditCall(PageSubmission, id, c)
  \/ \E id \in Ids : DeleteCall(PageSubmission, id)

SpecCalls == InitSub /\ [][NextCalls]_vars

\* edits through either variant of updateComment, of events of two kinds
NextEdit ==
  \/ WithinBudget /\ Tick
  \/ WithinBudget /\ AppendCall(PageSubmission, "A", "status_change")
  \/ WithinBudget /\ AppendCall(PageSubmission, "A", "scoring")
  \/ \E id \in Ids, c \in EditContents :
        WithinBudget /\ EditCall(PageSubmission, id, c)
  \/ \E id \in Ids, c \in EditContents :
        WithinBudget /\ EditCallWithMetadata(PageSubmission, id, c)
  \/ \E id \in Ids : WithinBudget /\ DeleteCall(PageSubmission, id)

SpecEdit == InitSub /\ [][NextEdit]_vars

\* the comment box of one admin's page, with texts of every shape
NextComment ==
  \/ TypeText(Subscriber)
  \/ AuthChange(Subscriber)
  \/ WithinBudget /\ handleAddComment(Subscriber)
  \/ handleAddComment_Fails(Subscriber)

SpecComment == InitSub /\ [][NextComment]_vars

\* the comment list of one admin's page over comments of two authors
NextDelete ==
  \/ AppendGeneral(PageSubmission, "A")
  \/ AppendGeneral(PageSubmission, "B")
  \/ AuthChange(Subscriber)
  \/ Subscribe(Subscriber)
  \/ Deliver(Subscriber)
  \/ handleDeleteComment(Subscriber)
  \/ handleDeleteComment_Fails(Subscriber)
  \/ handleDeleteComment_Declined(Subscriber)

SpecDelete == InitSub /\ [][NextDelete]_vars

\* one admin's page, subscribed, with every handler and every store failure
NextHandlers ==
  \/ fetchApplication(Subscriber)
  \/ Subscribe(Subscriber)
  \/ Deliver(Subscriber)
  \/ TypeComment(Subscriber)
  \/ WithinBudget /\ handleAddComment(Subscriber)
  \/ handleAddComment_Fails(Subscriber)
  \/ WithinBudget /\ handleSaveScore_Write(Subscriber)
  \/ WithinBudget /\ handleSaveScore_Log(Subscriber)
  \/ SaveScoreWriteFails(Subscriber)
  \/ SaveScoreLogFails(Subscriber)
  \/ WithinBudget /\ handleStatusChange_Write(Subscriber)
  \/ WithinBudget /\ handleStatusChange_Log(Subscriber)
  \/ handleStatusChange_Fails(Subscriber)
  \/ WithinBudget /\ handleFlagToggle_Write(Subscriber)
  \/ WithinBudget /\ handleFlagToggle_Log(Subscriber)
  \/ handleFlagToggle_Fails(Subscriber)
  \/ WithinBudget /\ handleNotesChange(Subscriber)
  \/ handleNotesChange_Fails(Subscriber)
  \/ WithinBudget /\ handleDeleteComment(Subscriber)
  \/ handleDeleteComment_Fails(Subscriber)

SpecHandlers == InitSub /\ [][NextHandlers]_vars

\* the SDK delivers every snapshot that is due to an attached listener
SpecHandlersFair == SpecHandlers /\ WF_vars(Deliver(Subscriber))

\* the four appends called directly, and the page's comment box
NextAppend ==
  \/ \E type \in Types : WithinBudget /\ AppendCall(PageSubmission, "B", type)
  \/ TypeComment(Subscriber)
  \/ WithinBudget /\ handleAddComment(Subscriber)
  \/ handleAddComment_Fails(Subscriber)

SpecAppend == InitSub /\ [][NextAppend]_vars

\* ------------------------------------------------------------------ claims
Live(s) == {id \in DOMAIN log : log[id].submissionId = s /\ ~log[id].isDeleted}
IdsOf(seq) == {seq[i].id : i \in 1..Len(seq)}
NoDuplicates(seq) == \A i, j \in 1..Len(seq) : i # j => seq[i].id # seq[j].id
NewestFirst(seq) == \A i, j \in 1..Len(seq) : i < j => seq[i].createdAt >= seq[j].createdAt
AsStored(seq) ==
  \A i \in 1..Len(seq) :
    /\ seq[i].id \in DOMAIN log
    /\ \A f \in DOMAIN log[seq[i].id] : seq[i][f] = log[seq[i].id][f]

\* C1: after any sequence of append, edit and softDelete calls, getComments
\* of a submission returns exactly that submission's events whose isDeleted
\* is false, each once, as stored, ordered by createdAt from newest to oldest.
C1_ListIsLiveNewestFirst ==
  \A s \in Submissions :
    LET r == getComments(s)
    IN  /\ IdsOf(r) = Live(s)
        /\ NoDuplicates(r)
        /\ NewestFirst(r)
        /\ AsStored(r)

\* a submission holding a soft-deleted event and two live events of
\* different age
C1_Witness ==
  /\ \E i, j \in Live(PageSubmission) : log[i].createdAt > log[j].createdAt
  /\ \E d \in Collection(PageSubmission) : log[d].isDeleted
  /\ Len(getComments(PageSubmission)) = 2

ScoringBy(s, a) ==
  {id \in Live(s) : log[id].adminId = a /\ log[id].type = "scoring"}

C4_TotalIsSum ==
  \A id \in DOMAIN log :
    log[id].type = "scoring" => log[id].scores[1].totalScore = SumOf(log[id].scores[1])

\* C5: the scores array handleSaveScore writes is the page's array without
\* the elements of the saving admin, in their order, followed by the new
\* score: it holds exactly one element of that admin, the new score.
SavingNow(a) == pc[a] = "idle" /\ pc'[a] # "idle"

EventsBy(a) ==
  {id \in Collection(PageSubmission) : log[id].adminId = a /\ log[id].type = "scoring"}
SubScores(p) == <<p.technical, p.story, p.creativity, p.chiangmai, p.humanEffort>>

C6_OneEntryManyEvents ==
  \A a \in Admins :
    /\ Cardinality(EventsBy(a)) = nSaved[a]
    /\ (nSaved[a] >= 1 /\ ~failed[a] /\ pc[a] = "idle" /\ writer = a) =>
          /\ Cardinality({i \in 1..Len(scoresDoc) : scoresDoc[i].adminId = a}) = 1
          /\ \E i \in 1..Len(scoresDoc) : scoresDoc[i] = EntryOf(a, lastSaved[a][1])

C6_SaveAppendsOnly ==
  \A a \in Admins :
    nSaved'[a] # nSaved[a] =>
      /\ \A id \in DOMAIN log : id \in DOMAIN log' /\ log'[id] = log[id]
      /\ \E id \in DOMAIN log' \ DOMAIN log :
            /\ DOMAIN log' = DOMAIN log \cup {id}
            /\ log'[id].adminId = a /\ log'[id].type = "scoring"
            /\ SubScores(log'[id].scores[1]) = SubScores(locals[a][1].scores)

MostRecent(S) == CHOOSE i \in S : \A j \in S : j <= i

C8_LatestIsOwn ==
  \A a \in Admins :
    LET r == getLatestScoreByAdmin(PageSubmission, a)
    IN  /\ EventsBy(a) = {} => r = None
        /\ EventsBy(a) # {} =>
              /\ Len(r) = 1
              /\ r[1].adminId = a
              /\ r[1].createdAt = log[MostRecent(EventsBy(a))].createdAt
              /\ (\A j \in EventsBy(a) \ {MostRecent(EventsBy(a))} :
                     log[j].createdAt < r[1].createdAt) => r[1].id = MostRecent(EventsBy(a))

C8_OthersUntouched ==
  \A a \in Admins :
    (pc'[a] # pc[a] \/ nSaved'[a] # nSaved[a]) =>
      /\ \A id \in DOMAIN log : log[id].adminId # a => id \in DOMAIN log' /\ log'[id] = log[id]
      /\ \A id \in DOMAIN log' \ DOMAIN log : log'[id].adminId = a
      /\ nSaved'[a] # nSaved[a] => Cardinality(DOMAIN log' \ DOMAIN log) = 1

Delivered(a) == callBit'[a] # callBit[a]

C2_DeletedInvisible ==
  \A id \in DOMAIN log :
    log[id].isDeleted =>
      LET s == log[id].submissionId
      IN  /\ id \notin IdsOf(getComments(s))
          /\ \A type \in Types : id \notin IdsOf(getCommentsByType(s, type))
          /\ \A a \in Admins : getLatestScoreByAdmin(s, a) # Some(Doc(id))

C2_DeletedStaysDeleted ==
  /\ \A id \in DOMAIN log :
        log[id].isDeleted => id \in DOMAIN log' /\ log'[id].isDeleted
  /\ \A a \in Admins :
        Delivered(a) =>
          \A i \in 1..Len(comments'[a]) :
            /\ ~log[comments'[a][i].id].isDeleted
            /\ ~log'[comments'[a][i].id].isDeleted

C2_SoftDeleteIsTerminal == []C2_DeletedInvisible /\ [][C2_DeletedStaysDeleted]_vars

\* an event was soft-deleted and edited afterwards, and the subscriber
\* holds a delivery made of the remaining event alone
C2_Witness ==
  /\ sub[Subscriber] = "active" /\ ~pendingSnap[Subscriber]
  /\ \E e, f \in Collection(PageSubmission) :
        /\ log[e].isDeleted /\ log[e].isEdited /\ ~log[f].isDeleted
        /\ log[e].createdAt > log[f].createdAt
        /\ comments[Subscriber] = <<Doc(f)>>
        /\ getLatestScoreByAdmin(PageSubmission, "A") = Some(Doc(f))

\* C9 as stated: while the subscription is active every append, edit or
\* soft delete on the submission is eventually followed by a call of the
\* callback, and every call carries the whole current non-deleted set,
\* newest first.
WholeSet(a) == comments'[a] = getComments(PageSubmission)'

C10_NoCallAfterUnsubscribe ==
  [][\A a \in Admins :
       sub[a] = "closed" => callBit'[a] = callBit[a] /\ comments'[a] = comments[a]]_vars

\* the subscription is closed with a snapshot still due and the list the
\* page holds is no longer the current one
C10_Witness ==
  /\ sub[Subscriber] = "closed"
  /\ pendingSnap[Subscriber]
  /\ comments[Subscriber] # << >>
  /\ comments[Subscriber] # getComments(PageSubmission)

\* a step that is the call `op` of the service
Called(op) ==
  /\ lastCall'.op = op
  /\ clock' = clock
  /\ lastCall' # lastCall \/ ops' # ops

\* C11: an edit whose target does not exist, or is soft-deleted, fails and
\* leaves the log as it was.
C11_EditOfMissingOrDeletedFails ==
  [][\A id \in Ids :
       (/\ Called("edit") /\ lastCall'.id = id
        /\ (id \notin Collection(PageSubmission) \/ log[id].isDeleted))
       => (~lastCall'.ok /\ log' = log)]_vars

\* C12: a successful edit of a live general event sets its content to the
\* new content, isEdited to TRUE and updatedAt to the time of the edit,
\* and changes nothing else; isEdited never goes back to FALSE and
\* updatedAt never goes back in time.
C12_EditSetsFields ==
  [][/\ \A id \in Collection(PageSubmission) :
          (/\ Called("edit") /\ lastCall'.id = id /\ lastCall'.ok
           /\ ~log[id].isDeleted /\ log[id].type = "general")
          => log'[id] = [log[id] EXCEPT !.content = lastCall'.content,
                                        !.isEdited = TRUE,
                                        !.updatedAt = Some(clock)]
     /\ \A id \in DOMAIN log :
          /\ log[id].isEdited => log'[id].isEdited
          /\ log[id].updatedAt # None =>
                /\ log'[id].updatedAt # None
                /\ log'[id].updatedAt[1] >= log[id].updatedAt[1]]_vars

\* a live general event edited at time 2 after an edit at an earlier time
C12_Witness ==
  /\ lastCall = Call("edit", 1, <<"c2">>, TRUE)
  /\ 1 \in Collection(PageSubmission)
  /\ log[1].type = "general" /\ ~log[1].isDeleted
  /\ log[1].isEdited /\ log[1].content = <<"c2">>
  /\ log[1].updatedAt = Some(2) /\ log[1].createdAt = 0
  /\ ops = 5

\* C13: deleteComment on a soft-deleted event succeeds and leaves the
\* stored event, updatedAt included, as the first delete left it.
C13_SecondDeleteChangesNothing ==
  [][\A id \in Collection(PageSubmission) :
       (Called("delete") /\ lastCall'.id = id /\ log[id].isDeleted)
       => (lastCall'.ok /\ log'[id] = log[id])]_vars

\* C14: when an append gives the new event a createdAt later than that of
\* every live event of the submission, the unfiltered list and the list of
\* the event's kind both start with the new event, which is stored with
\* isEdited = FALSE and isDeleted = FALSE.
C14_AppendedIsFirst ==
  [][\A id \in DOMAIN log' \ DOMAIN log, s \in Submissions, k \in Types :
       (/\ log'[id].submissionId = s /\ log'[id].type = k
        /\ \A j \in Live(s) : log[j].createdAt < log'[id].createdAt)
       => /\ ~log'[id].isEdited /\ ~log'[id].isDeleted
          /\ getComments(s)'[1] = [id |-> id] @@ log'[id]
          /\ getCommentsByType(s, k)'[1] = [id |-> id] @@ log'[id]]_vars

\* a flag event appended after a tick stands first, before an older flag
\* event and an event of another kind
C14_Witness ==
  /\ Len(getComments(PageSubmission)) = 3
  /\ Len(getCommentsByType(PageSubmission, "flag")) = 2
  /\ getComments(PageSubmission)[1].id = 3
  /\ getCommentsByType(PageSubmission, "flag")[1].id = 3
  /\ log[3].createdAt > log[2].createdAt
  /\ log[3].createdAt > log[1].createdAt

\* C18: getCommentsByType(k), and the page's filter k over the unfiltered
\* list, give exactly the non-deleted events of kind k in the order of the
\* unfiltered list; the filter value all gives every non-deleted event.
OfKind(s, k) == {id \in Live(s) : log[id].type = k}

C18_FilterByKind ==
  LET s == PageSubmission
      all == getComments(s)
  IN  /\ filteredComments(all, "all") = all
      /\ IdsOf(all) = Live(s)
      /\ \A k \in Types :
            /\ IdsOf(getCommentsByType(s, k)) = OfKind(s, k)
            /\ Len(getCommentsByType(s, k)) = Cardinality(OfKind(s, k))
            /\ getCommentsByType(s, k) = SelectSeq(all, LAMBDA c : c.type = k)
            /\ filteredComments(all, k) = getCommentsByType(s, k)

\* two general events, a scoring event and a flag event: the flag filter
\* gives the one flag event
C18_Witness ==
  /\ Cardinality(OfKind(PageSubmission, "general")) = 2
  /\ Cardinality(OfKind(PageSubmission, "scoring")) = 1
  /\ Cardinality(OfKind(PageSubmission, "flag")) = 1
  /\ Len(filteredComments(getComments(PageSubmission), "flag")) = 1
  /\ Len(getCommentsByType(PageSubmission, "flag")) = 1
  /\ \E i, j \in Live(PageSubmission) : log[i].createdAt < log[j].createdAt

\* a step in which a handler of page a ends in its catch branch
FailureStep(a) ==
  /\ rejected'[a]
  /\ ~rejected[a] \/ pc'[a] # pc[a] \/ notice'[a] # notice[a]

\* C15: an append whose store write fails returns no id and adds no event
\* to the log; handleAddComment then shows an error, no success, and keeps
\* the typed comment.
C15_FailedAppendRecordsNothing ==
  [][/\ (lastCall' # lastCall /\ lastCall'.op = "append" /\ ~lastCall'.ok)
          => (log' = log /\ lastCall'.id \notin DOMAIN log')
     /\ \A a \in Admins :
          FailureStep(a) =>
            /\ log' = log
            /\ notice'[a] = "error"
            /\ draft'[a] = draft[a] /\ draft'[a] # << >>]_vars

\* after an accepted comment a second one was typed and its append failed:
\* the log holds one event, the draft is kept, the notice is the error
C15_Witness ==
  /\ rejected[Subscriber] /\ notice[Subscriber] = "error"
  /\ draft[Subscriber] # << >>
  /\ Cardinality({id \in Collection(PageSubmission) : log[id].adminId = Subscriber}) = 1
  /\ lastCall.op = "append" /\ ~lastCall.ok

\* C16: a payload with a sub-score outside 0..10 or a total that is not
\* the sum reaches neither the comment log nor the scores array.
ValidPayload(p) ==
  /\ \A v \in {p.technical, p.story, p.creativity, p.chiangmai, p.humanEffort} : v \in 0..10
  /\ p.totalScore = SumOf(p)

C16_InvalidPayloadRejected ==
  /\ \A i \in 1..Len(scoresDoc) : ValidPayload(scoresDoc[i])
  /\ \A id \in DOMAIN log : log[id].type = "scoring" => ValidPayload(log[id].scores[1])

\* C17: when the subscription errors, the callback is called with the
\* empty list and nothing else of the page changes.
C17_ErrorDeliversEmptyList ==
  [][\A a \in Admins :
       (sub[a] = "active" /\ sub'[a] = "errored") =>
         /\ Delivered(a)
         /\ comments'[a] = << >>
         /\ UNCHANGED <<app, scoresDoc, draft, notice, locals, pc>>]_vars

\* C19: a handler whose store write fails ends with the error notice and
\* never the success notice, leaves the subscription as it is, and a
\* snapshot due to the page is still delivered afterwards.
C19_Answered ==
  \A a \in Admins : rejected[a] => notice[a] = "error"

C19_SubscriptionKept ==
  \A a \in Admins :
    FailureStep(a) =>
      /\ notice'[a] = "error"
      /\ UNCHANGED subVars

C19_FailuresAreCaught ==
  /\ []C19_Answered
  /\ [][C19_SubscriptionKept]_vars
  /\ \A a \in Admins :
        (rejected[a] /\ listening[a] /\ pendingSnap[a]) ~> ~pendingSnap[a]

\* the status write landed and its log append failed; a comment was added
\* and delivered afterwards, and the next append failed again
C19_Witness ==
  /\ rejected[Subscriber] /\ notice[Subscriber] = "error"
  /\ app[Subscriber] # None
  /\ subDoc.reviewStatus # app[Subscriber][1].reviewStatus
  /\ listening[Subscriber] /\ ~pendingSnap[Subscriber]
  /\ Len(comments[Subscriber]) = 1
  /\ draft[Subscriber] # << >>

\* C20: an edit leaves the content and the isEdited flag of every event
\* that is not a general comment as they are.
C20_EditOnlyGeneral ==
  [][\A id \in DOMAIN log :
       log[id].type # "general" =>
         /\ log'[id].content = log[id].content
         /\ log'[id].isEdited = log[id].isEdited]_vars

\* C21: the id, submissionId, adminId, adminName, adminEmail, type and
\* createdAt of a stored event stay as they were at creation through every
\* edit and soft delete of it and every operation on other events.
Identity(d) ==
  <<d.submissionId, d.adminId, d.adminName, d.adminEmail, d.type, d.createdAt>>

C21_IdentityImmutable ==
  [][\A id \in DOMAIN log :
       /\ id \in DOMAIN log'
       /\ Identity(log'[id]) = Identity(log[id])]_vars

\* an event edited and soft-deleted after the clock moved on, next to a
\* younger live event
C21_Witness ==
  \E e, f \in Collection(PageSubmission) :
    /\ log[e].isEdited /\ log[e].isDeleted
    /\ log[e].updatedAt # None /\ log[e].updatedAt[1] > log[e].createdAt
    /\ Identity(log[e]) = <<PageSubmission, "A", NameOf("A"), EmailOf("A"), "general", 0>>
    /\ f > e /\ ~log[f].isDeleted /\ log[f].createdAt > 0

\* C23: handleSaveScore writes the scores array first and the log second,
\* with no transaction: the step that writes the array leaves the log as it
\* is, and when the log append then fails the array keeps the new score,
\* the log gets no event, and no later step of the page reconciles the two.
WritesArray(a) == pc[a] = "idle" /\ pc'[a] \in {"save_log", "save_log_v1"}
LogStep(a) == pc[a] \in {"save_log", "save_log_v1"} /\ pc'[a] = "idle"

C23_ArrayThenLogStep ==
  /\ \A a \in Admins :
       /\ WritesArray(a) =>
            /\ log' = log
            /\ Len(scoresDoc') >= 1
            /\ scoresDoc'[Len(scoresDoc')] = EntryOf(a, locals'[a][1].scores)
       /\ LogStep(a) /\ nSaved'[a] = nSaved[a] =>
            /\ log' = log /\ scoresDoc' = scoresDoc /\ failed'[a]
       /\ LogStep(a) /\ nSaved'[a] # nSaved[a] =>
            /\ scoresDoc' = scoresDoc
            /\ Cardinality(DOMAIN log' \ DOMAIN log) = 1
  /\ pc' = pc => log' = log /\ scoresDoc' = scoresDoc

C23_ArrayThenLog == [][C23_ArrayThenLogStep]_vars

\* the one save so far wrote the array and failed on the log, and the page
\* was loaded again afterwards
C23_Witness ==
  /\ saves = 1 /\ pc["A"] = "idle" /\ failed["A"] /\ nSaved["A"] = 0
  /\ scoresDoc # <<>> /\ scoresDoc[1].adminId = "A"
  /\ log = << >>
  /\ app["A"] # None /\ app["A"][1].scores = scoresDoc

\* C24: the score that pre-fills the scoring form of the signed-in admin is
\* the score of that admin's latest non-deleted scoring event in the log,
\* and the form stays empty when the admin has no such event.
Fetches(a) == app'[a] # app[a] /\ pc' = pc

C24_PrefillIsLatestLogScore ==
  [][\A a \in Admins :
       Fetches(a) =>
         LET filled == userScore(app'[a][1].scores, a)
             latest == getLatestScoreByAdmin(PageSubmission, a)
         IN  IF latest = None THEN filled = None
             ELSE /\ filled # None
                  /\ SubScores(filled[1]) = SubScores(latest[1].scores[1])]_vars

\* C25: when two admins have both completed a save, the stored scores
\* array holds an entry for each of them, in every interleaving of their
\* page loads and saves.
HasEntry(a) == \E i \in 1..Len(scoresDoc) : scoresDoc[i].adminId = a

C25_BothEntriesKept ==
  (\A a \in Admins : nSaved[a] >= 1 /\ pc[a] = "idle" /\ ~failed[a]) =>
    \A a \in Admins : HasEntry(a)

\* C27: after any handleStatusChange calls, failing log appends included,
\* the stored reviewStatus is the newStatus of the newest status_change
\* event of the log, and the oldStatus an event records is the reviewStatus
\* that was stored immediately before that change.
StatusEvents ==
  {id \in Collection(PageSubmission) : log[id].type = "status_change"}

C27_StoredIsNewest ==
  (\A a \in Admins : pc[a] # "status_log") =>
    IF StatusEvents = {} THEN subDoc.reviewStatus = "pending"
    ELSE subDoc.reviewStatus = log[MostRecent(StatusEvents)].metadata.newStatus

C27_OldIsStoredBefore ==
  \A a \in Admins :
    (pc[a] = "idle" /\ pc'[a] = "status_log") =>
      app[a][1].reviewStatus = subDoc.reviewStatus

C27_StatusFollowsLog == []C27_StoredIsNewest /\ [][C27_OldIsStoredBefore]_vars

\* C26: updateComment called with only a new content leaves the metadata,
\* the scores and the isDeleted of the target event as they were.
C26_EditKeepsTheRest ==
  [][\A id \in Collection(PageSubmission) :
       (Called("edit") /\ lastCall'.id = id /\ lastCall'.ok) =>
         /\ log'[id].metadata = log[id].metadata
         /\ log'[id].scores = log[id].scores
         /\ log'[id].isDeleted = log[id].isDeleted]_vars

\* C28: after the page subscribes, loadingComments eventually becomes
\* false (or the page is closed), when the first snapshot is delivered as
\* well as when the subscription fails with an error or cannot be set up.
C28_LoadingEnds ==
  \A a \in Admins :
    (sub[a] = "active") ~> (~loadingComments[a] \/ sub[a] = "closed")

\* C29: every handler that raises a busy flag lowers it again when its
\* store calls complete, on success and on every failure: a page whose
\* handlers have finished has no flag raised, and the step that ends a
\* handler leaves the handler's flag lowered.
BusyFlags == {"isSubmittingScore", "isSubmittingComment", "isUpdating"}

FlagOf(at) ==
  IF at \in {"save_log", "save_log_v1"} THEN "isSubmittingScore" ELSE "isUpdating"

C29_NoFlagLeftRaised ==
  \A a \in Admins :
    /\ busy[a] \subseteq BusyFlags
    /\ pc[a] = "idle" => busy[a] = {}

C29_FinishLowers ==
  \A a \in Admins :
    /\ (pc[a] = "idle" /\ pc'[a] # "idle") => FlagOf(pc'[a]) \in busy'[a]
    /\ (pc[a] # "idle" /\ pc'[a] = "idle") => FlagOf(pc[a]) \notin busy'[a]

C29_BusyFlagsLowered == []C29_NoFlagLeftRaised /\ [][C29_FinishLowers]_vars

\* a save whose log append failed and a status change have both finished
C29_Witness ==
  /\ saves = 1 /\ failed[Subscriber] /\ nSaved[Subscriber] = 0
  /\ subDoc.reviewStatus = "approved"
  /\ pc[Subscriber] = "idle" /\ busy[Subscriber] = {}

\* C22: every general event stored through the page has a content that is
\* not empty and carries no white space at either end; with an empty or
\* all-white-space text in the box, or with no signed-in admin, nothing is
\* appended; and what is appended is the text of the box without the white
\* space at its ends.
Blank(text) == \A i \in 1..Len(text) : text[i] = " "

Trimmed(text) ==
  /\ text # << >>
  /\ text[1] # " "
  /\ text[Len(text)] # " "

C22_ContentsTrimmed ==
  \A id \in DOMAIN log : log[id].type = "general" => Trimmed(log[id].content)

\* the stored content is the box's text with some white space cut off the
\* front and some off the back
CutOf(content, text) ==
  \E i, j \in 1..Len(text) :
    /\ content = SubSeq(text, i, j)
    /\ Blank(SubSeq(text, 1, i - 1))
    /\ Blank(SubSeq(text, j + 1, Len(text)))

C22_AppendStep ==
  /\ (Blank(draft[Subscriber]) \/ user[Subscriber] = None) => log' = log
  /\ \A id \in DOMAIN log' \ DOMAIN log :
       /\ log'[id].type = "general"
       /\ log'[id].adminId = Subscriber
       /\ CutOf(log'[id].content, draft[Subscriber])

C22_GeneralContentNonEmpty == []C22_ContentsTrimmed /\ [][C22_AppendStep]_vars

\* two comments were stored, one of them typed with white space around it,
\* and the box now holds white space only
C22_Witness ==
  /\ Cardinality(DOMAIN log) = 2
  /\ \E id \in DOMAIN log : log[id].content = <<"c1", " ", "c1">>
  /\ draft[Subscriber] = <<" ">>
  /\ notice[Subscriber] = "success"

\* C30: through the page an event is soft-deleted only by the signed-in
\* admin who wrote it, from the list the page shows, and only when the
\* confirm dialog was accepted: a declined dialog leaves the log as it was.
Declined == lastCall'.op = "confirm_declined" /\ lastCall' # lastCall

C30_DeleteStep ==
  /\ \A id \in DOMAIN log :
       (~log[id].isDeleted /\ log'[id].isDeleted) =>
         /\ user[Subscriber] # None
         /\ log[id].adminId = user[Subscriber][1]
         /\ id \in IdsOf(comments[Subscriber])
         /\ ~Declined
  /\ Declined => log' = log

C30_OnlyAuthorDeletes == [][C30_DeleteStep]_vars

\* the admin declined to delete one comment and deleted another, next to
\* a live comment of another admin the page also lists
C30_Witness ==
  /\ lastCall.op = "confirm_declined"
  /\ \E i, j, k \in Collection(PageSubmission) :
       /\ log[i].adminId = Subscriber /\ log[i].isDeleted
       /\ log[j].adminId = Subscriber /\ ~log[j].isDeleted /\ lastCall.id = j
       /\ log[k].adminId # Subscriber /\ ~log[k].isDeleted
       /\ k \in IdsOf(comments[Subscriber])

====
